---------------------------- MODULE Spec2Model ----------------------------
(***************************************************************************)
(* The task collection of the TaskManager backend: the Task schema with    *)
(* its two middleware hooks (models/Task.js) and the request handlers of   *)
(* routes/tasks.js.  A handler is a function of the collection, the        *)
(* request and the clock; its value holds the response and the collection  *)
(* it leaves behind.  The actions apply the handlers to the collection.    *)
(*                                                                         *)
(* Strings are sequences of one-character strings.  A JSON object (a       *)
(* request body, an update document) is a function whose domain is the set *)
(* of keys it has.  A date is <<t>> for the clock value t, null is <<>>.   *)
(* updatedAt is not modelled: no handler reads it.                         *)
(*                                                                         *)
(* Three specifications share the handlers:                                *)
(*   Spec      one request at a time, every request body of Bodies;        *)
(*   SpecRace  updates split into their read and their write, so that      *)
(*             other requests run in between;                              *)
(*   SpecList  a collection that outgrows one page of a listing;           *)
(*   SpecClock the updates of SpecRace with a clock that advances;         *)
(*   SpecSearch records with the texts that the searches tell apart.       *)
(***************************************************************************)
EXTENDS Integers, Sequences, FiniteSets, TLC

\* Bounds of the model: the records Spec creates, the records SpecRace creates,
\* the updates SpecRace holds between their read and their write, and the
\* records SpecList creates, the last value of the clock in SpecClock and in
\* SpecSearch, and the records SpecSearch creates.
MaxTasks == 2
RaceTasks == 1
MaxInflight == 1
MaxListed == 12
MaxTime == 2
MaxSearch == 3

\* Constants of the program.
TitleMaxLen == 100
DescMaxLen == 500
DefaultPage == 1
DefaultLimit == 10
SuggestLimit == 10

StatusValues == {"pending", "in-progress", "completed"}

Null == << >>
Date(t) == <<t>>

----------------------------------------------------------------------------
\* Strings.

Whitespace == {" "}

RECURSIVE Repeat(_, _)
Repeat(c, n) ==
  IF n = 0 THEN << >>
  ELSE LET half == Repeat(c, n \div 2)
       IN IF n % 2 = 0 THEN half \o half ELSE Append(half \o half, c)

\* String.prototype.trim: the leading whitespace goes, then the trailing.
RECURSIVE TrimStart(_)
TrimStart(s) ==
  IF s # << >> /\ Head(s) \in Whitespace THEN TrimStart(Tail(s)) ELSE s

RECURSIVE TrimEnd(_)
TrimEnd(s) ==
  IF s # << >> /\ s[Len(s)] \in Whitespace THEN TrimEnd(SubSeq(s, 1, Len(s) - 1)) ELSE s

\* The string taken as it came.
NoTrim(s) == s

Trim(s) == TrimEnd(TrimStart(s))

\* !s for a string s
Falsy(s) == s = << >>

----------------------------------------------------------------------------
\* Objects.

EmptyObj == [f \in {} |-> << >>]

Has(o, f) == f \in DOMAIN o

\* delete o.f
Delete(o, f) == [g \in DOMAIN o \ {f} |-> o[g]]

\* o with the keys of u set to u's values
Assign(o, u) ==
  [g \in DOMAIN o \cup DOMAIN u |-> IF g \in DOMAIN u THEN u[g] ELSE o[g]]

Field(f, v) == [g \in {f} |-> v]

----------------------------------------------------------------------------
\* Request bodies: each of title, description and status is absent or one of
\* a few strings, among them the empty, the blank, the padded and the overlong.

TitleInputs == {<< >>, <<" ">>, <<" ", "a", " ">>, <<"b">>, Repeat("x", TitleMaxLen + 1)}

DescInputs == {<< >>, <<" ", "d">>, Repeat("y", DescMaxLen + 1)}

StatusInputs == StatusValues \cup {"archived"}

Opt(f, S) == {EmptyObj} \cup {Field(f, v) : v \in S}

Bodies ==
  {Assign(Assign(t, d), s) : t \in Opt("title", TitleInputs),
                             d \in Opt("description", DescInputs),
                             s \in Opt("status", StatusInputs)}

----------------------------------------------------------------------------
\* The schema and its hooks (models/Task.js).

\* The validators that save() runs on a document.
DocValid(doc) ==
  /\ Len(doc.title) > 0
  /\ Len(doc.title) <= TitleMaxLen
  /\ Len(doc.description) <= DescMaxLen
  /\ doc.status \in StatusValues

\* The validators that runValidators runs on the paths an update sets.
UpdateValid(u) ==
  /\ Has(u, "title") => Len(u.title) > 0 /\ Len(u.title) <= TitleMaxLen
  /\ Has(u, "description") => Len(u.description) <= DescMaxLen
  /\ Has(u, "status") => u.status \in StatusValues

\* TaskSchema.pre('save') on a document whose status is modified.
PreSave(doc, t) ==
  LET stamped == IF doc.status = "completed" /\ doc.completedAt = Null
                 THEN [doc EXCEPT !.completedAt = Date(t)]
                 ELSE doc
  IN IF stamped.status # "completed"
     THEN [stamped EXCEPT !.completedAt = Null]
     ELSE stamped

\* The hook with its else branch lost: a status is stamped and never cleared.
PreFindOneAndUpdateNoClear(update, t) ==
  IF Has(update, "status") /\ update.status = "completed"
  THEN Assign(update, Field("completedAt", Date(t)))
  ELSE update

\* The hook with its `update.status !== undefined` test lost.
PreFindOneAndUpdateUnguarded(update, t) ==
  Assign(update, Field("completedAt",
                       IF Has(update, "status") /\ update.status = "completed"
                       THEN Date(t) ELSE Null))

\* TaskSchema.pre('findOneAndUpdate').
PreFindOneAndUpdate(update, t) ==
  IF Has(update, "status")
  THEN Assign(update, Field("completedAt",
                            IF update.status = "completed" THEN Date(t) ELSE Null))
  ELSE update

----------------------------------------------------------------------------
\* Responses.

Resp(kind, error, store) == [kind |-> kind, error |-> error, tasks |-> store]

\* Task.findByIdAndUpdate(id, update, {new: true[, runValidators: true]}) and the
\* handler's `if (!task)` after it.
FindByIdAndUpdate(store, id, update, t, runValidators, failure) ==
  LET u == PreFindOneAndUpdate(update, t)
  IN IF runValidators /\ ~UpdateValid(u)
     THEN Resp("StoreError", failure, store)
     ELSE IF id \notin DOMAIN store
     THEN Resp("NotFoundError", "Task not found", store)
     ELSE Resp("ok", "", [store EXCEPT ![id] = Assign(store[id], u)])

----------------------------------------------------------------------------
\* POST /

\* POST / taking the status of the request.
NewTaskWithStatus(body, t) ==
  [title       |-> Trim(body.title),
   description |-> IF Has(body, "description") /\ ~Falsy(body.description)
                   THEN Trim(body.description) ELSE << >>,
   status      |-> IF Has(body, "status") /\ body.status \in StatusValues
                   THEN body.status ELSE "pending",
   isDeleted   |-> FALSE,
   deletedAt   |-> Null,
   completedAt |-> Null,
   createdAt   |-> Date(t)]

NewTask(body, t) ==
  [title       |-> Trim(body.title),
   description |-> IF Has(body, "description") /\ ~Falsy(body.description)
                   THEN Trim(body.description) ELSE << >>,
   status      |-> "pending",
   isDeleted   |-> FALSE,
   deletedAt   |-> Null,
   completedAt |-> Null,
   createdAt   |-> Date(t)]

CreateTask(store, id, body, t) ==
  IF ~Has(body, "title") \/ Falsy(body.title) \/ Trim(body.title) = << >>
  THEN Resp("ValidationError", "Title is required", store)
  ELSE LET doc == PreSave(NewTask(body, t), t)
       IN IF ~DocValid(doc)
          THEN Resp("StoreError", "Failed to create task", store)
          ELSE Resp("ok", "", [i \in DOMAIN store \cup {id} |->
                                 IF i = id THEN doc ELSE store[i]])

----------------------------------------------------------------------------
\* PUT /:id and PATCH /:id

\* The three `if (x !== undefined)` blocks that build updateData.
BuildUpdateData(body) ==
  IF Has(body, "title") /\ (Falsy(body.title) \/ Trim(body.title) = << >>)
  THEN [kind |-> "ValidationError", error |-> "Title cannot be empty", updateData |-> EmptyObj]
  ELSE IF Has(body, "status") /\ body.status \notin StatusValues
  THEN [kind |-> "ValidationError", error |-> "Invalid status value", updateData |-> EmptyObj]
  ELSE LET t == IF Has(body, "title") THEN Field("title", Trim(body.title)) ELSE EmptyObj
           d == IF Has(body, "description")
                THEN Field("description",
                           IF Falsy(body.description) THEN << >> ELSE Trim(body.description))
                ELSE EmptyObj
           s == IF Has(body, "status") THEN Field("status", body.status) ELSE EmptyObj
       IN [kind |-> "ok", error |-> "", updateData |-> Assign(Assign(t, d), s)]

\* The rule of PUT without its two `delete updateData.x`.
PutCompletedRuleKeepsEdits(body, updateData) ==
  IF Has(body, "status") /\ body.status = "in-progress"
  THEN [kind |-> "ok", error |-> "",
        updateData |-> Assign(updateData, Field("status", "in-progress"))]
  ELSE IF Has(body, "status") /\ body.status # "" /\ body.status # "in-progress"
  THEN [kind |-> "InvalidTransitionError",
        error |-> "Completed tasks can only be reverted to in-progress",
        updateData |-> EmptyObj]
  ELSE [kind |-> "InvalidTransitionError", error |-> "Completed tasks cannot be edited",
        updateData |-> EmptyObj]

\* PUT: `if (existing.status === 'completed') {...}`
PutCompletedRule(body, updateData) ==
  IF Has(body, "status") /\ body.status = "in-progress"
  THEN [kind |-> "ok", error |-> "",
        updateData |-> Delete(Delete(Assign(updateData, Field("status", "in-progress")),
                                     "title"), "description")]
  ELSE IF Has(body, "status") /\ body.status # "" /\ body.status # "in-progress"
  THEN [kind |-> "InvalidTransitionError",
        error |-> "Completed tasks can only be reverted to in-progress",
        updateData |-> EmptyObj]
  ELSE [kind |-> "InvalidTransitionError", error |-> "Completed tasks cannot be edited",
        updateData |-> EmptyObj]

\* The rule of PATCH with its two `delete updateData.x` inside the first branch.
PatchCompletedRuleKeepsEdits(body, updateData) ==
  IF Has(body, "status") /\ body.status = "in-progress"
  THEN [kind |-> "ok", error |-> "",
        updateData |-> Delete(Delete(Assign(updateData, Field("status", "in-progress")),
                                     "title"), "description")]
  ELSE IF Has(body, "status") /\ body.status # "" /\ body.status # "in-progress"
  THEN [kind |-> "InvalidTransitionError",
        error |-> "Completed tasks can only be reverted to in-progress",
        updateData |-> EmptyObj]
  ELSE [kind |-> "ok", error |-> "", updateData |-> updateData]

\* PATCH: `if (existing.status === 'completed') {...}`
PatchCompletedRule(body, updateData) ==
  IF Has(body, "status") /\ body.status = "in-progress"
  THEN [kind |-> "ok", error |-> "",
        updateData |-> Delete(Delete(Assign(updateData, Field("status", "in-progress")),
                                     "title"), "description")]
  ELSE IF Has(body, "status") /\ body.status # "" /\ body.status # "in-progress"
  THEN [kind |-> "InvalidTransitionError",
        error |-> "Completed tasks can only be reverted to in-progress",
        updateData |-> EmptyObj]
  ELSE [kind |-> "ok", error |-> "",
        updateData |-> Delete(Delete(updateData, "title"), "description")]

\* PUT with findById moved before the checks of the fields.
PutReadLooksUpFirst(store, id, body) ==
  LET b == BuildUpdateData(body)
  IN IF id \notin DOMAIN store
     THEN [kind |-> "NotFoundError", error |-> "Task not found", updateData |-> EmptyObj]
     ELSE IF b.kind # "ok" THEN b
     ELSE IF store[id].status = "completed"
     THEN PutCompletedRule(body, b.updateData)
     ELSE b

\* PUT up to its write: validation, findById, the rule for completed tasks.
PutRead(store, id, body) ==
  LET b == BuildUpdateData(body)
  IN IF b.kind # "ok" THEN b
     ELSE IF id \notin DOMAIN store
     THEN [kind |-> "NotFoundError", error |-> "Task not found", updateData |-> EmptyObj]
     ELSE IF store[id].status = "completed"
     THEN PutCompletedRule(body, b.updateData)
     ELSE b

\* PATCH that takes a record in the trash for one that is gone.
PatchReadHidesTrash(store, id, body) ==
  LET b == BuildUpdateData(body)
  IN IF b.kind # "ok" THEN b
     ELSE IF DOMAIN b.updateData = {}
     THEN [kind |-> "ValidationError", error |-> "No fields provided for update",
           updateData |-> EmptyObj]
     ELSE IF id \notin DOMAIN store \/ store[id].isDeleted = TRUE
     THEN [kind |-> "NotFoundError", error |-> "Task not found", updateData |-> EmptyObj]
     ELSE IF store[id].status = "completed"
     THEN PatchCompletedRule(body, b.updateData)
     ELSE b

\* PATCH up to its write.
PatchRead(store, id, body) ==
  LET b == BuildUpdateData(body)
  IN IF b.kind # "ok" THEN b
     ELSE IF DOMAIN b.updateData = {}
     THEN [kind |-> "ValidationError", error |-> "No fields provided for update",
           updateData |-> EmptyObj]
     ELSE IF id \notin DOMAIN store
     THEN [kind |-> "NotFoundError", error |-> "Task not found", updateData |-> EmptyObj]
     ELSE IF store[id].status = "completed"
     THEN PatchCompletedRule(body, b.updateData)
     ELSE b

\* The write as an upsert: a record that is gone is created from the update.
UpdateWriteUpsert(store, id, updateData, t) ==
  LET u == PreFindOneAndUpdate(updateData, t)
  IN IF ~UpdateValid(u)
     THEN Resp("StoreError", "Failed to update task", store)
     ELSE Resp("ok", "", [i \in DOMAIN store \cup {id} |->
                            IF i = id
                            THEN Assign(IF id \in DOMAIN store THEN store[id]
                                        ELSE NewTask(Field("title", <<"b">>), t), u)
                            ELSE store[i]])

\* The write of PUT and of PATCH.
UpdateWrite(store, id, updateData, t) ==
  FindByIdAndUpdate(store, id, updateData, t, TRUE, "Failed to update task")

\* PUT /:id as a replacement: what the request omits returns to its default.
UpdateTaskFullReplace(store, id, body, t) ==
  LET r == PutRead(store, id, body)
      defaults == [title |-> << >>, description |-> << >>, status |-> "pending"]
  IN IF r.kind # "ok" THEN Resp(r.kind, r.error, store)
     ELSE UpdateWrite(store, id, Assign(defaults, r.updateData), t)

\* PUT /:id with nothing between its read and its write.
UpdateTaskFull(store, id, body, t) ==
  LET r == PutRead(store, id, body)
  IN IF r.kind # "ok" THEN Resp(r.kind, r.error, store)
     ELSE UpdateWrite(store, id, r.updateData, t)

\* PATCH /:id with nothing between its read and its write.
UpdateTaskPartial(store, id, body, t) ==
  LET r == PatchRead(store, id, body)
  IN IF r.kind # "ok" THEN Resp(r.kind, r.error, store)
     ELSE UpdateWrite(store, id, r.updateData, t)

----------------------------------------------------------------------------
\* DELETE /:id, PATCH /:id/restore, DELETE /:id/hard, GET /:id

SoftDeleteTask(store, id, t) ==
  FindByIdAndUpdate(store, id, [isDeleted |-> TRUE, deletedAt |-> Date(t)], t, FALSE,
                    "Failed to delete task")

\* The restore that forgets deletedAt.
RestoreTaskKeepsDeletedAt(store, id, t) ==
  FindByIdAndUpdate(store, id, [isDeleted |-> FALSE], t, FALSE, "Failed to restore task")

RestoreTask(store, id, t) ==
  FindByIdAndUpdate(store, id, [isDeleted |-> FALSE, deletedAt |-> Null], t, FALSE,
                    "Failed to restore task")

HardDeleteTask(store, id) ==
  IF id \notin DOMAIN store
  THEN Resp("NotFoundError", "Task not found", store)
  ELSE Resp("ok", "", [i \in DOMAIN store \ {id} |-> store[i]])

GetTask(store, id) ==
  IF id \notin DOMAIN store
  THEN [kind |-> "NotFoundError", error |-> "Task not found", task |-> Null]
  ELSE [kind |-> "ok", error |-> "", task |-> store[id]]

----------------------------------------------------------------------------
\* GET / and GET /trash/list.  A query is an object of the parameters it
\* gives, each a string.  A listing is the sequence of the ids of the documents
\* it returns.

DigitChars == <<"0", "1", "2", "3", "4", "5", "6", "7", "8", "9">>

IsDigit(c) == \E d \in 1..Len(DigitChars) : DigitChars[d] = c

DigitValue(c) == (CHOOSE d \in 1..Len(DigitChars) : DigitChars[d] = c) - 1

\* String(n) for a natural number n
RECURSIVE NumberToString(_)
NumberToString(n) ==
  IF n < Len(DigitChars) THEN <<DigitChars[n + 1]>>
  ELSE Append(NumberToString(n \div Len(DigitChars)), DigitChars[(n % Len(DigitChars)) + 1])

\* The value of the digits that s begins with, after acc.
RECURSIVE LeadingDigits(_, _)
LeadingDigits(s, acc) ==
  IF s # << >> /\ IsDigit(Head(s))
  THEN LeadingDigits(Tail(s), acc * Len(DigitChars) + DigitValue(Head(s)))
  ELSE acc

\* parseInt(s) for a string that has a digit after its leading whitespace: the
\* number that its leading digits write; what follows them is not read.
ParseInt(s) == LeadingDigits(TrimStart(s), 0)

\* The letter that a case-insensitive match takes c for.
Lower(c) ==
  CASE c = "A" -> "a"
    [] c = "P" -> "p"
    [] c = "X" -> "x"
    [] OTHER -> c

\* The regular expression that the text of term writes: "." stands for any
\* character, "(" opens a group, any other character of the model stands for
\* itself.  No character of the model closes a group, so a term with "(" is
\* not a regular expression and the store refuses the query.
RegexValid(term) == \A k \in 1..Len(term) : term[k] # "("

\* The expression matches input from position pos on, with option i.
RegexMatchAt(term, input, pos) ==
  /\ pos + Len(term) - 1 <= Len(input)
  /\ \A k \in 1..Len(term) :
       term[k] = "." \/ Lower(term[k]) = Lower(input[pos + k - 1])

\* { $regex: `^${term}`, $options: 'i' }
RegexStarts(term, input) == RegexMatchAt(term, input, 1)

\* { $regex: term, $options: 'i' }
RegexContains(term, input) ==
  \E pos \in 1..(Len(input) + 1) : RegexMatchAt(term, input, pos)

\* keyword && keyword.trim() !== ''
KeywordGiven(q) == Has(q, "keyword") /\ ~Falsy(q.keyword) /\ Trim(q.keyword) # << >>

SearchTerm(q) == Trim(q.keyword)

\* filter.$or = searchConditions
SearchConditions(doc, term) ==
  \/ RegexStarts(term, doc.title)
  \/ RegexStarts(term, doc.description)
  \/ RegexContains(term, doc.title)
  \/ RegexContains(term, doc.description)

\* $addFields: { priority: ... }
Priority(doc, term) ==
  IF RegexStarts(term, doc.title) THEN 3
  ELSE IF RegexStarts(term, doc.description) THEN 2
  ELSE IF RegexContains(term, doc.title) THEN 1
  ELSE 0

Param(q, k, default) == IF Has(q, k) THEN q[k] ELSE default

\* The filter of GET / without `filter.isDeleted = false`.
ListFilterAnyDeleted(doc, q) ==
  /\ (Has(q, "status") /\ q.status \in StatusValues) => doc.status = q.status
  /\ KeywordGiven(q) => SearchConditions(doc, SearchTerm(q))

\* The filter object of GET /.
ListFilter(doc, q) ==
  /\ Param(q, "includeDeleted", "false") # "true" => doc.isDeleted = FALSE
  /\ (Has(q, "status") /\ q.status \in StatusValues) => doc.status = q.status
  /\ KeywordGiven(q) => SearchConditions(doc, SearchTerm(q))

\* The filter object of GET /trash/list.
TrashFilter(doc, q) ==
  /\ doc.isDeleted = TRUE
  /\ (Has(q, "status") /\ q.status \in StatusValues) => doc.status = q.status
  /\ KeywordGiven(q) => SearchConditions(doc, SearchTerm(q))

\* .sort({key: -1}): the ids of S by descending date; the order of two records
\* of one date is the store's to choose.
RECURSIVE SortDesc(_, _, _)
SortDesc(store, S, key) ==
  IF S = {} THEN << >>
  ELSE LET top == CHOOSE i \in S : \A j \in S : store[j][key][1] <= store[i][key][1]
       IN <<top>> \o SortDesc(store, S \ {top}, key)

\* .skip(skip).limit(limit)
Window(sorted, skip, limit) ==
  SubSeq(sorted, skip + 1, IF skip + limit < Len(sorted) THEN skip + limit ELSE Len(sorted))

\* Math.floor(total / limit)
FloorDiv(total, limit) == total \div limit

\* Math.ceil(total / limit)
CeilDiv(total, limit) == (total + limit - 1) \div limit

\* $sort: { priority: -1, createdAt: -1 }
RECURSIVE SortRanked(_, _, _)
SortRanked(store, S, term) ==
  IF S = {} THEN << >>
  ELSE LET rank(i) == <<Priority(store[i], term), store[i].createdAt[1]>>
           top == CHOOSE i \in S : \A j \in S :
                    \/ rank(j)[1] < rank(i)[1]
                    \/ rank(j)[1] = rank(i)[1] /\ rank(j)[2] <= rank(i)[2]
       IN <<top>> \o SortRanked(store, S \ {top}, term)

\* The answer with the window of the sorted documents and the pagination.
Paginated(sorted, q) ==
  LET page == ParseInt(Param(q, "page", NumberToString(DefaultPage)))
      limit == ParseInt(Param(q, "limit", NumberToString(DefaultLimit)))
      skip == (page - 1) * limit
      total == Len(sorted)
  IN [kind |-> "ok", error |-> "",
      tasks |-> Window(sorted, skip, limit),
      pagination |-> [current |-> page, pages |-> CeilDiv(total, limit), total |-> total]]

\* The answer of the catch block.
ListFailed(error) ==
  [kind |-> "StoreError", error |-> error, tasks |-> << >>,
   pagination |-> [current |-> 0, pages |-> 0, total |-> 0]]

ListTasks(store, q) ==
  LET matching == {i \in DOMAIN store : ListFilter(store[i], q)}
  IN IF ~KeywordGiven(q) THEN Paginated(SortDesc(store, matching, "createdAt"), q)
     ELSE IF ~RegexValid(SearchTerm(q)) THEN ListFailed("Failed to fetch tasks")
     ELSE Paginated(SortRanked(store, matching, SearchTerm(q)), q)

ListTrash(store, q) ==
  LET matching == {i \in DOMAIN store : TrashFilter(store[i], q)}
  IN IF KeywordGiven(q) /\ ~RegexValid(SearchTerm(q))
     THEN ListFailed("Failed to fetch trash")
     ELSE Paginated(SortDesc(store, matching, "deletedAt"), q)

----------------------------------------------------------------------------
\* GET /search/suggestions

\* The documents in the order in which the collection holds them.
RECURSIVE NaturalOrder(_)
NaturalOrder(S) ==
  IF S = {} THEN << >>
  ELSE LET first == CHOOSE i \in S : \A j \in S : i <= j
       IN <<first>> \o NaturalOrder(S \ {first})

\* The stage $match of the suggestions.
SuggestMatch(doc, term) ==
  RegexStarts(term, doc.title) \/ RegexStarts(term, doc.description)

\* The stage $project: the matchType of a document.
MatchType(doc, term) ==
  IF RegexStarts(term, doc.title) THEN "title" ELSE "description"

Suggest(store, query) ==
  IF ~Has(query, "q") \/ Falsy(query.q) \/ Trim(query.q) = << >>
  THEN [kind |-> "ok", error |-> "", suggestions |-> << >>]
  ELSE LET term == Trim(query.q)
           matched == NaturalOrder({i \in DOMAIN store : SuggestMatch(store[i], term)})
           limited == SubSeq(matched, 1, IF Len(matched) < SuggestLimit THEN Len(matched)
                                         ELSE SuggestLimit)
       IN IF ~RegexValid(term)
          THEN [kind |-> "StoreError", error |-> "Failed to fetch search suggestions",
                suggestions |-> << >>]
          ELSE [kind |-> "ok", error |-> "",
                suggestions |-> [k \in 1..Len(limited) |->
                                   [id |-> limited[k],
                                    title |-> store[limited[k]].title,
                                    description |-> store[limited[k]].description,
                                    status |-> store[limited[k]].status,
                                    matchType |-> MatchType(store[limited[k]], term)]]]

----------------------------------------------------------------------------
\* GET /stats/summary

\* The stage $group without the stage $match before it.
StatsGroupsWithTrash(store) ==
  {[_id |-> s, count |-> Cardinality({i \in DOMAIN store : store[i].status = s})] :
     s \in {store[i].status : i \in DOMAIN store}}

\* The stages $match and $group: one {_id, count} for each status that a record
\* outside the trash has.
StatsGroups(store) ==
  LET matched == {i \in DOMAIN store : store[i].isDeleted = FALSE}
  IN {[_id |-> s, count |-> Cardinality({i \in matched : store[i].status = s})] :
        s \in {store[i].status : i \in matched}}

\* stats.forEach(stat => {...}) on the summary so far.
RECURSIVE ForEachStat(_, _)
ForEachStat(stats, summary) ==
  IF stats = {} THEN summary
  ELSE LET stat == CHOOSE x \in stats : TRUE
       IN ForEachStat(stats \ {stat},
                      [summary EXCEPT ![stat._id] = stat.count,
                                      !["total"] = @ + stat.count])

Summary(store) ==
  ForEachStat(StatsGroups(store),
              [k \in StatusValues \cup {"total"} |-> 0])

----------------------------------------------------------------------------
\* The state: the collection, the next fresh id, the clock, and the updates
\* that have read the record and not yet written.

VARIABLES tasks, nextId, now, inflight

vars == <<tasks, nextId, now, inflight>>

Init ==
  /\ tasks = EmptyObj
  /\ nextId = 1
  /\ now = 0
  /\ inflight = << >>

\* POST /, while fewer than max records have been created.
Create(body, max) ==
  /\ nextId <= max
  /\ LET r == CreateTask(tasks, nextId, body, now)
     IN /\ tasks' = r.tasks
        /\ nextId' = IF r.kind = "ok" THEN nextId + 1 ELSE nextId
  /\ UNCHANGED <<now, inflight>>

\* PUT /:id, its read and its write with no other request in between.
Put(id, body) ==
  /\ tasks' = UpdateTaskFull(tasks, id, body, now).tasks
  /\ UNCHANGED <<nextId, now, inflight>>

\* PATCH /:id, its read and its write with no other request in between.
Patch(id, body) ==
  /\ tasks' = UpdateTaskPartial(tasks, id, body, now).tasks
  /\ UNCHANGED <<nextId, now, inflight>>

\* PUT /:id up to its write; a request that responds before it stays out.
PutBegin(id, body) ==
  /\ Len(inflight) < MaxInflight
  /\ LET r == PutRead(tasks, id, body)
     IN /\ r.kind = "ok"
        /\ inflight' = Append(inflight, [id |-> id, updateData |-> r.updateData])
  /\ UNCHANGED <<tasks, nextId, now>>

\* PATCH /:id up to its write.
PatchBegin(id, body) ==
  /\ Len(inflight) < MaxInflight
  /\ LET r == PatchRead(tasks, id, body)
     IN /\ r.kind = "ok"
        /\ inflight' = Append(inflight, [id |-> id, updateData |-> r.updateData])
  /\ UNCHANGED <<tasks, nextId, now>>

\* The write of the i-th update that is waiting for it.
UpdateEnd(i) ==
  /\ tasks' = UpdateWrite(tasks, inflight[i].id, inflight[i].updateData, now).tasks
  /\ inflight' = SubSeq(inflight, 1, i - 1) \o SubSeq(inflight, i + 1, Len(inflight))
  /\ UNCHANGED <<nextId, now>>

SoftDelete(id) ==
  /\ tasks' = SoftDeleteTask(tasks, id, now).tasks
  /\ UNCHANGED <<nextId, now, inflight>>

Restore(id) ==
  /\ tasks' = RestoreTask(tasks, id, now).tasks
  /\ UNCHANGED <<nextId, now, inflight>>

HardDelete(id) ==
  /\ tasks' = HardDeleteTask(tasks, id).tasks
  /\ UNCHANGED <<nextId, now, inflight>>

\* Time passes between two steps.
Tick ==
  /\ now < MaxTime
  /\ now' = now + 1
  /\ UNCHANGED <<tasks, nextId, inflight>>

\* One request at a time.
Next ==
  \/ \E body \in Bodies : Create(body, MaxTasks)
  \/ \E id \in 1..MaxTasks, body \in Bodies : Put(id, body)
  \/ \E id \in 1..MaxTasks, body \in Bodies : Patch(id, body)
  \/ \E id \in 1..MaxTasks : SoftDelete(id)
  \/ \E id \in 1..MaxTasks : Restore(id)
  \/ \E id \in 1..MaxTasks : HardDelete(id)

Spec == Init /\ [][Next]_vars

\* The bodies of the racing requests: a title, an overlong title or none, a
\* status or none.
RaceBodies ==
  {Assign(t, s) : t \in Opt("title", {<<"b">>, Repeat("x", TitleMaxLen + 1)}),
                  s \in Opt("status", StatusValues)}

RaceCreateBodies == {Field("title", <<" ", "a", " ">>)}

\* Updates in two steps, with any request between the two.
NextRace ==
  \/ \E body \in RaceCreateBodies : Create(body, RaceTasks)
  \/ \E id \in 1..RaceTasks, body \in RaceBodies : Put(id, body)
  \/ \E id \in 1..RaceTasks, body \in RaceBodies : Patch(id, body)
  \/ \E id \in 1..RaceTasks, body \in RaceBodies : PutBegin(id, body)
  \/ \E id \in 1..RaceTasks, body \in RaceBodies : PatchBegin(id, body)
  \/ \E i \in 1..Len(inflight) : UpdateEnd(i)
  \/ \E id \in 1..RaceTasks : SoftDelete(id)
  \/ \E id \in 1..RaceTasks : Restore(id)
  \/ \E id \in 1..RaceTasks : HardDelete(id)

SpecRace == Init /\ [][NextRace]_vars

ListBodies == {Field("title", <<"b">>)}

\* Records created, moved to the trash and back.
NextList ==
  \/ \E body \in ListBodies : Create(body, MaxListed)
  \/ \E id \in 1..MaxListed : SoftDelete(id)
  \/ \E id \in 1..MaxListed : Restore(id)

SpecList == Init /\ [][NextList]_vars

\* The bodies of the updates under the clock: a status, or a title.
ClockBodies ==
  {Field("status", "completed"), Field("status", "in-progress"), Field("title", <<"b">>)}

\* Updates in two steps while the clock advances.
NextClock ==
  \/ \E body \in RaceCreateBodies : Create(body, RaceTasks)
  \/ \E id \in 1..RaceTasks, body \in ClockBodies : Put(id, body)
  \/ \E id \in 1..RaceTasks, body \in ClockBodies : Patch(id, body)
  \/ \E id \in 1..RaceTasks, body \in ClockBodies : PutBegin(id, body)
  \/ \E id \in 1..RaceTasks, body \in ClockBodies : PatchBegin(id, body)
  \/ \E i \in 1..Len(inflight) : UpdateEnd(i)
  \/ Tick

SpecClock == Init /\ [][NextClock]_vars

\* The bodies of the records that are searched: for the term "ap", a title
\* that starts with it, a description that starts with it, a title that
\* contains it, a description that contains it, neither; and a title with the
\* character that opens a group.
SearchBodies ==
  {Assign(Field("title", <<"A", "p">>), Field("description", <<"x">>)),
   Assign(Field("title", <<"x">>), Field("description", <<"a", "p", "x">>)),
   Field("title", <<"x", "A", "P">>),
   Assign(Field("title", <<"x">>), Field("description", <<"x", "a", "p">>)),
   Field("title", <<"x">>),
   Field("title", <<"(", "a">>)}

\* Records created at different times, moved to the trash and back.
NextSearch ==
  \/ \E body \in SearchBodies : Create(body, MaxSearch)
  \/ \E id \in 1..MaxSearch : SoftDelete(id)
  \/ \E id \in 1..MaxSearch : Restore(id)
  \/ Tick

SpecSearch == Init /\ [][NextSearch]_vars

----------------------------------------------------------------------------
\* Properties.

Range(seq) == {seq[i] : i \in 1..Len(seq)}

\* C1: under every interleaving of the requests, and of the reads and writes of
\* updates, every stored task has completedAt set exactly when its status is
\* completed.
CompletedAtIffCompleted ==
  \A id \in DOMAIN tasks :
    (tasks[id].completedAt # Null) <=> (tasks[id].status = "completed")

\* A completed task, stamped, with an update that read it waiting to write a
\* status.
CompletedWithStatusWriteWaiting ==
  \E i \in 1..Len(inflight) :
    /\ inflight[i].id \in DOMAIN tasks
    /\ tasks[inflight[i].id].status = "completed"
    /\ tasks[inflight[i].id].completedAt # Null
    /\ Has(inflight[i].updateData, "status")

\* isDeleted and deletedAt of record id are in `after` what they are in tasks.
SameTrashFields(after, id) ==
  /\ id \in DOMAIN after
  /\ after[id].isDeleted = tasks[id].isDeleted
  /\ after[id].deletedAt = tasks[id].deletedAt

\* C2: every stored task has deletedAt set exactly when isDeleted is true; the
\* soft delete sets both, the restore clears both, and a create, an update or
\* a hard delete of another record leaves both as they are.
DeletedAtIffIsDeleted ==
  /\ \A id \in DOMAIN tasks : (tasks[id].deletedAt # Null) <=> (tasks[id].isDeleted = TRUE)
  /\ \A id \in DOMAIN tasks :
       /\ LET after == SoftDeleteTask(tasks, id, now).tasks[id]
          IN after.isDeleted = TRUE /\ after.deletedAt = Date(now)
       /\ LET after == RestoreTask(tasks, id, now).tasks[id]
          IN after.isDeleted = FALSE /\ after.deletedAt = Null
       /\ \A body \in Bodies :
            /\ SameTrashFields(CreateTask(tasks, nextId, body, now).tasks, id)
            /\ SameTrashFields(UpdateTaskFull(tasks, id, body, now).tasks, id)
            /\ SameTrashFields(UpdateTaskPartial(tasks, id, body, now).tasks, id)
       /\ \A other \in DOMAIN tasks \ {id} :
            /\ SameTrashFields(HardDeleteTask(tasks, other).tasks, id)
            /\ SameTrashFields(SoftDeleteTask(tasks, other, now).tasks, id)
            /\ SameTrashFields(RestoreTask(tasks, other, now).tasks, id)
            /\ \A body \in Bodies :
                 /\ SameTrashFields(UpdateTaskFull(tasks, other, body, now).tasks, id)
                 /\ SameTrashFields(UpdateTaskPartial(tasks, other, body, now).tasks, id)

\* A task in the trash next to one that is not.
OneTrashedOneNot ==
  \E id, other \in DOMAIN tasks :
    /\ tasks[id].isDeleted = TRUE /\ tasks[id].deletedAt # Null
    /\ tasks[other].isDeleted = FALSE /\ tasks[other].deletedAt = Null

\* What a request must satisfy to pass the checks of its fields: a title, if
\* given, that is not blank, and a status, if given, among the three.
FieldsAccepted(body) ==
  /\ Has(body, "title") => Trim(body.title) # << >>
  /\ Has(body, "status") => body.status \in StatusValues

\* A title and a description, if given, within the lengths of the schema.
FieldsFit(body) ==
  /\ Has(body, "title") => Len(Trim(body.title)) <= TitleMaxLen
  /\ Has(body, "description") => Len(Trim(body.description)) <= DescMaxLen

\* The bodies that ask for one of the three statuses.
StatusBodies == {body \in Bodies : Has(body, "status") /\ body.status \in StatusValues}

\* The outcome of the update r of record id with body, by the status of the
\* record and the status asked for.
TransitionOutcome(r, id, body) ==
  IF tasks[id].status = "completed"
  THEN IF body.status = "in-progress"
       THEN /\ r.kind = "ok"
            /\ r.tasks[id].status = "in-progress"
            /\ r.tasks[id].completedAt = Null
            /\ r.tasks[id].title = tasks[id].title
            /\ r.tasks[id].description = tasks[id].description
       ELSE /\ r.kind = "InvalidTransitionError"
            /\ r.tasks = tasks
  ELSE /\ r.kind = "ok"
       /\ r.tasks[id].status = body.status

\* C3 as stated: on PUT and on PATCH with no request in between, a completed
\* task goes to in-progress with completedAt null and its title and description
\* kept, even if the request gives them; a request for pending or completed
\* fails with InvalidTransitionError and changes nothing; a pending or
\* in-progress task takes any of the three statuses.
TransitionsForEveryBody ==
  \A id \in DOMAIN tasks : \A body \in StatusBodies :
    /\ TransitionOutcome(UpdateTaskFull(tasks, id, body, now), id, body)
    /\ TransitionOutcome(UpdateTaskPartial(tasks, id, body, now), id, body)

\* C3: on PUT and on PATCH with no request in between, for a request whose
\* title, if given, is not blank: a completed task goes to in-progress with
\* completedAt null and its title and description kept, even if the request
\* gives them; a request for pending or completed fails with
\* InvalidTransitionError and changes nothing; a pending or in-progress task
\* takes any of the three statuses, if the title and description of the request
\* are within the lengths of the schema.
TransitionsForAcceptedBodies ==
  \A id \in DOMAIN tasks : \A body \in StatusBodies :
    (FieldsAccepted(body) /\ (tasks[id].status # "completed" => FieldsFit(body))) =>
      /\ TransitionOutcome(UpdateTaskFull(tasks, id, body, now), id, body)
      /\ TransitionOutcome(UpdateTaskPartial(tasks, id, body, now), id, body)

\* A completed task that a request with another title and an overlong
\* description reverts to in-progress, next to a pending one that a request
\* completes.
RevertDropsEdits ==
  \E id, other \in DOMAIN tasks : \E body \in StatusBodies :
    /\ tasks[id].status = "completed"
    /\ body.status = "in-progress"
    /\ Has(body, "title") /\ FieldsAccepted(body) /\ Trim(body.title) # tasks[id].title
    /\ Has(body, "description") /\ ~FieldsFit(body)
    /\ UpdateTaskFull(tasks, id, body, now).kind = "ok"
    /\ UpdateTaskFull(tasks, id, body, now).tasks[id].title = tasks[id].title
    /\ UpdateTaskPartial(tasks, id, body, now).tasks[id].status = "in-progress"
    /\ tasks[other].status = "pending"
    /\ UpdateTaskPartial(tasks, other, Field("status", "completed"), now).tasks[other].completedAt
         = Date(now)

\* The bodies that give a title or a description and no status.
EditBodies ==
  {body \in Bodies : ~Has(body, "status") /\ (Has(body, "title") \/ Has(body, "description"))}

\* C4 as stated: for a completed task and a request with a title or a
\* description and no status, PUT fails with InvalidTransitionError and
\* changes nothing, PATCH succeeds and changes nothing.
EditsOfCompletedForEveryBody ==
  \A id \in DOMAIN tasks : \A body \in EditBodies :
    tasks[id].status = "completed" =>
      /\ UpdateTaskFull(tasks, id, body, now) =
           Resp("InvalidTransitionError", "Completed tasks cannot be edited", tasks)
      /\ UpdateTaskPartial(tasks, id, body, now) = Resp("ok", "", tasks)

\* C4: for a completed task and a request with a title or a description and no
\* status, whose title, if given, is not blank, PUT fails with
\* InvalidTransitionError and changes nothing, PATCH succeeds and leaves title,
\* description, status and completedAt as they are.
EditsOfCompletedForAcceptedBodies ==
  \A id \in DOMAIN tasks : \A body \in EditBodies :
    (tasks[id].status = "completed" /\ FieldsAccepted(body)) =>
      /\ UpdateTaskFull(tasks, id, body, now) =
           Resp("InvalidTransitionError", "Completed tasks cannot be edited", tasks)
      /\ UpdateTaskPartial(tasks, id, body, now) = Resp("ok", "", tasks)

\* A completed task and a request with another title and another description
\* that PUT refuses and PATCH answers without a change.
EditRefusedByPutDroppedByPatch ==
  \E id \in DOMAIN tasks : \E body \in EditBodies :
    /\ tasks[id].status = "completed"
    /\ Has(body, "title") /\ FieldsAccepted(body) /\ Trim(body.title) # tasks[id].title
    /\ Has(body, "description") /\ Trim(body.description) # tasks[id].description
    /\ UpdateTaskFull(tasks, id, body, now).kind = "InvalidTransitionError"
    /\ UpdateTaskPartial(tasks, id, body, now).kind = "ok"
    /\ UpdateTaskPartial(tasks, id, body, now).tasks = tasks

\* The create r has added the record id, pending and neither trashed nor
\* completed, and nothing else.
AddsOnePending(r, id) ==
  /\ r.kind = "ok"
  /\ id \notin DOMAIN tasks
  /\ DOMAIN r.tasks = DOMAIN tasks \cup {id}
  /\ r.tasks[id].status = "pending"
  /\ r.tasks[id].isDeleted = FALSE
  /\ r.tasks[id].deletedAt = Null
  /\ r.tasks[id].completedAt = Null
  /\ \A other \in DOMAIN tasks : r.tasks[other] = tasks[other]

\* C5 as stated: a create with a title that is not blank after trimming, and
\* with any status or none, adds exactly one record, with status pending,
\* isDeleted false, deletedAt null and completedAt null, and changes no other.
CreateForEveryNonBlankTitle ==
  \A body \in Bodies :
    (Has(body, "title") /\ Trim(body.title) # << >>) =>
      AddsOnePending(CreateTask(tasks, nextId, body, now), nextId)

\* C5: a create with a title that is not blank and at most 100 characters
\* after trimming, with a description, if any, of at most 500 characters after
\* trimming, and with any status or none, adds exactly one record, with status
\* pending, isDeleted false, deletedAt null and completedAt null, and changes
\* no other.
CreateForEveryFittingTitle ==
  \A body \in Bodies :
    (Has(body, "title") /\ Trim(body.title) # << >> /\ FieldsFit(body)) =>
      AddsOnePending(CreateTask(tasks, nextId, body, now), nextId)

\* A completed record in the store, and creates that ask for completed and
\* for a status that does not exist.
CreateIgnoresStatus ==
  /\ \E other \in DOMAIN tasks : tasks[other].status = "completed"
  /\ \E body \in Bodies :
       /\ Has(body, "title") /\ Has(body, "status") /\ body.status = "completed"
       /\ CreateTask(tasks, nextId, body, now).kind = "ok"
       /\ CreateTask(tasks, nextId, body, now).tasks[nextId].status = "pending"
  /\ \E body \in Bodies :
       /\ Has(body, "title") /\ Has(body, "status") /\ body.status \notin StatusValues
       /\ CreateTask(tasks, nextId, body, now).kind = "ok"

\* C6: whatever titles the creates and the updates were given, no stored task
\* has a title that is empty or only whitespace.
NoBlankTitleStored ==
  \A id \in DOMAIN tasks :
    /\ tasks[id].title # << >>
    /\ \E i \in 1..Len(tasks[id].title) : tasks[id].title[i] \notin Whitespace

\* A task created from a padded title and since given another title, which
\* still refuses the empty and the blank title.
TitleReplacedAndBlankRefused ==
  \E id \in DOMAIN tasks :
    /\ tasks[id].title = <<"b">>
    /\ \E other \in DOMAIN tasks : tasks[other].title = <<"a">>
    /\ UpdateTaskFull(tasks, id, Field("title", << >>), now).kind = "ValidationError"
    /\ UpdateTaskPartial(tasks, id, Field("title", <<" ">>), now).kind = "ValidationError"

\* The fields of a record that a soft delete and a restore do not write.
KeptFields == {"title", "description", "status", "completedAt", "createdAt"}

\* The soft delete or restore r of record id: every other field and every
\* other record as before; NotFoundError and no change if id is not stored.
OnlyTrashFieldsChange(r, id) ==
  IF id \in DOMAIN tasks
  THEN /\ r.kind = "ok"
       /\ DOMAIN r.tasks = DOMAIN tasks
       /\ \A f \in KeptFields : r.tasks[id][f] = tasks[id][f]
       /\ \A other \in DOMAIN tasks \ {id} : r.tasks[other] = tasks[other]
  ELSE r = Resp("NotFoundError", "Task not found", tasks)

\* C9: a soft delete and a restore change nothing but isDeleted and deletedAt
\* of their record: its status, completedAt, title and description, and every
\* other record, stay as they are; for an id that is not stored both fail with
\* NotFoundError and change nothing.
SoftDeleteRestoreFrame ==
  \A id \in 1..MaxTasks :
    /\ OnlyTrashFieldsChange(SoftDeleteTask(tasks, id, now), id)
    /\ OnlyTrashFieldsChange(RestoreTask(tasks, id, now), id)

\* A completed task in the trash, still completed and stamped, and an id that
\* is not stored.
CompletedInTrash ==
  /\ \E id \in DOMAIN tasks :
       /\ tasks[id].isDeleted = TRUE
       /\ tasks[id].status = "completed"
       /\ tasks[id].completedAt # Null
       /\ RestoreTask(tasks, id, now).tasks[id].isDeleted = FALSE
  /\ \E id \in 1..MaxTasks :
       /\ id \notin DOMAIN tasks
       /\ SoftDeleteTask(tasks, id, now).kind = "NotFoundError"

\* What the fields of a record are when nothing has set them.
DefaultFields == [title |-> << >>, description |-> << >>, status |-> "pending"]

OmittedFields(body) == {"title", "description", "status"} \ DOMAIN body

\* The update r of record id has succeeded and has left the fields that body
\* omits as they were.
OmittedUntouched(r, id, body) ==
  r.kind = "ok" => \A f \in OmittedFields(body) : r.tasks[id][f] = tasks[id][f]

\* C10 as stated: on a task that is not completed, a PUT that succeeds leaves
\* every field of title, description and status that the request omits at its
\* empty or default value, and a PATCH that succeeds leaves it untouched.
PutResetsOmittedFields ==
  \A id \in DOMAIN tasks : \A body \in Bodies :
    tasks[id].status # "completed" =>
      /\ LET r == UpdateTaskFull(tasks, id, body, now)
         IN r.kind = "ok" => \A f \in OmittedFields(body) : r.tasks[id][f] = DefaultFields[f]
      /\ OmittedUntouched(UpdateTaskPartial(tasks, id, body, now), id, body)

\* C10: on a task that is not completed, a PUT that succeeds and a PATCH that
\* succeeds both leave every field of title, description and status that the
\* request omits untouched.
PutAndPatchKeepOmittedFields ==
  \A id \in DOMAIN tasks : \A body \in Bodies :
    tasks[id].status # "completed" =>
      /\ OmittedUntouched(UpdateTaskFull(tasks, id, body, now), id, body)
      /\ OmittedUntouched(UpdateTaskPartial(tasks, id, body, now), id, body)

\* An in-progress task with a description, and a PUT of a title alone that
\* succeeds and keeps the description and the status.
PutOfTitleKeepsTheRest ==
  \E id \in DOMAIN tasks :
    /\ tasks[id].status = "in-progress"
    /\ tasks[id].description # << >>
    /\ tasks[id].title = <<"a">>
    /\ LET r == UpdateTaskFull(tasks, id, Field("title", <<"b">>), now)
       IN /\ r.kind = "ok"
          /\ r.tasks[id].title = <<"b">>
          /\ r.tasks[id].description = tasks[id].description
          /\ r.tasks[id].status = "in-progress"

\* The ids that GET / returns by default, that it returns with
\* includeDeleted=true, and that GET /trash/list returns.
DefaultListing == Range(ListTasks(tasks, EmptyObj).tasks)

FullListing == Range(ListTasks(tasks, Field("includeDeleted", "true")).tasks)

TrashListing == Range(ListTrash(tasks, EmptyObj).tasks)

Live == {id \in DOMAIN tasks : tasks[id].isDeleted = FALSE}

Trashed == {id \in DOMAIN tasks : tasks[id].isDeleted = TRUE}

Min(a, b) == IF a < b THEN a ELSE b

\* What each of the three listings may hold.
ListingsRespectIsDeleted ==
  /\ DefaultListing \subseteq Live
  /\ TrashListing \subseteq Trashed
  /\ FullListing \subseteq DOMAIN tasks
  /\ Cardinality(FullListing) = Min(Cardinality(DOMAIN tasks), DefaultLimit)
  /\ Trashed # {} /\ Cardinality(DOMAIN tasks) <= DefaultLimit => FullListing \cap Trashed # {}

\* C7 as stated: the default listing returns only records that are not
\* soft-deleted, the listing with includeDeleted=true returns records whether
\* soft-deleted or not, the trash listing returns only soft-deleted records;
\* hence a stored task is absent from the default listing exactly while it is
\* soft-deleted, and every stored task is in exactly one of the default
\* listing and the trash listing.
ListingsPartitionTheStore ==
  /\ ListingsRespectIsDeleted
  /\ \A id \in DOMAIN tasks : id \notin DefaultListing <=> tasks[id].isDeleted = TRUE
  /\ \A id \in DOMAIN tasks : id \in DefaultListing <=> id \notin TrashListing

\* C7: the default listing returns only records that are not soft-deleted, the
\* listing with includeDeleted=true returns records whether soft-deleted or
\* not, the trash listing returns only soft-deleted records; hence a
\* soft-deleted task is absent from the default listing, no stored task is in
\* both the default listing and the trash listing, and a listing holds all the
\* records of its kind, so that every stored task is in exactly one of the two,
\* when there are no more of them than the default limit of a page.
ListingsPartitionOnePage ==
  /\ ListingsRespectIsDeleted
  /\ \A id \in DOMAIN tasks : tasks[id].isDeleted = TRUE => id \notin DefaultListing
  /\ DefaultListing \cap TrashListing = {}
  /\ Cardinality(Live) <= DefaultLimit => DefaultListing = Live
  /\ Cardinality(Trashed) <= DefaultLimit => TrashListing = Trashed
  /\ Cardinality(DefaultListing) = Min(Cardinality(Live), DefaultLimit)
  /\ Cardinality(TrashListing) = Min(Cardinality(Trashed), DefaultLimit)

\* More live records than a page holds, one of them on no listing, and a
\* record in the trash.
LiveRecordOffThePage ==
  /\ Cardinality(Live) > DefaultLimit
  /\ Trashed # {}
  /\ TrashListing = Trashed
  /\ \E id \in Live : id \notin DefaultListing /\ id \notin TrashListing

\* The record id has existed and has been removed: ids are given out in order
\* and only a hard delete takes one out of the store.
Removed(id) == id < nextId /\ id \notin DOMAIN tasks

NotFound == Resp("NotFoundError", "Task not found", tasks)

\* A hard delete removes any stored record, in the trash or not, and no other.
HardDeleteRemoves ==
  \A id \in DOMAIN tasks :
    LET r == HardDeleteTask(tasks, id)
    IN /\ r.kind = "ok"
       /\ DOMAIN r.tasks = DOMAIN tasks \ {id}
       /\ \A other \in DOMAIN tasks \ {id} : r.tasks[other] = tasks[other]

\* No listing and no read returns id; a soft delete, a restore and a hard
\* delete of it fail with NotFoundError and change nothing.
GoneForReadsAndDeletes(id) ==
  /\ id \notin DefaultListing \cup FullListing \cup TrashListing
  /\ GetTask(tasks, id).kind = "NotFoundError"
  /\ SoftDeleteTask(tasks, id, now) = NotFound
  /\ RestoreTask(tasks, id, now) = NotFound
  /\ HardDeleteTask(tasks, id) = NotFound

\* The updates that have read record id and have not written yet.
WaitingOn(id) == {i \in 1..Len(inflight) : inflight[i].id = id}

StaleWrite(i) == UpdateWrite(tasks, inflight[i].id, inflight[i].updateData, now)

\* The bodies of the updates that follow a hard delete: those of the racing
\* requests and one for each way the fields of a request are refused.
LaterBodies ==
  RaceBodies \cup {Field("title", << >>), Field("title", <<" ">>),
                   Field("status", "archived"),
                   Field("description", Repeat("y", DescMaxLen + 1))}

\* C8 as stated, for the requests that follow a hard delete: the id is absent
\* from every listing and from the read of one task, and every later read,
\* update, soft delete, restore and hard delete of it fails with
\* NotFoundError, also the write of an update that had read the record before
\* it was removed.
NotFoundForEveryLaterRequest ==
  /\ HardDeleteRemoves
  /\ \A id \in 1..RaceTasks :
       Removed(id) =>
         /\ GoneForReadsAndDeletes(id)
         /\ \A body \in LaterBodies :
              /\ UpdateTaskFull(tasks, id, body, now) = NotFound
              /\ UpdateTaskPartial(tasks, id, body, now) = NotFound
         /\ \A i \in WaitingOn(id) : StaleWrite(i) = NotFound

\* An update r has failed and has changed nothing; if its fields were fine it
\* has failed with NotFoundError.
FailsUnchanged(r, fine) ==
  /\ r.kind # "ok"
  /\ r.tasks = tasks
  /\ fine => r = NotFound

\* What holds of a removed id in every state.
RemovedStaysAbsent ==
  /\ HardDeleteRemoves
  /\ \A id \in 1..RaceTasks :
       Removed(id) =>
         /\ GoneForReadsAndDeletes(id)
         /\ \A body \in LaterBodies :
              /\ FailsUnchanged(UpdateTaskFull(tasks, id, body, now), FieldsAccepted(body))
              /\ FailsUnchanged(UpdateTaskPartial(tasks, id, body, now),
                                FieldsAccepted(body) /\ DOMAIN body # {})
         /\ \A i \in WaitingOn(id) :
              FailsUnchanged(StaleWrite(i),
                             /\ Has(inflight[i].updateData, "title") =>
                                  Len(inflight[i].updateData.title) <= TitleMaxLen
                             /\ Has(inflight[i].updateData, "description") =>
                                  Len(inflight[i].updateData.description) <= DescMaxLen)

\* C8: a hard delete removes the record, in the trash or not, for good: in
\* every later state the id is absent from every listing and from the read of
\* one task; every later read, soft delete, restore and hard delete of it fails
\* with NotFoundError; every later update of it fails and changes nothing, with
\* NotFoundError unless its fields are refused first (a blank title, a status
\* that does not exist, a PATCH with no field, an overlong title or
\* description in a waiting write); the write of an update that had read the
\* record before it was removed fails in the same way and never brings the
\* record back.
HardDeleteIsPermanent ==
  /\ []RemovedStaysAbsent
  /\ [][\A id \in 1..RaceTasks : Removed(id) => Removed(id)']_vars

\* A record that is removed while an update that has read it waits to write.
WriteWaitingOnRemoved ==
  \E i \in 1..Len(inflight) :
    /\ Removed(inflight[i].id)
    /\ StaleWrite(i) = NotFound

\* The answer r is a ValidationError that has changed nothing.
Refused(r) == r.kind = "ValidationError" /\ r.tasks = tasks

\* C15: a request whose fields are refused fails with ValidationError and
\* leaves the store as it is, whether the id is stored or not and whatever the
\* status of the record: a create, a PUT or a PATCH with a title that is blank
\* after trimming, a PUT or a PATCH with a status that is not one of the
\* three, a PATCH with none of title, description and status.
ValidationBeforeLookup ==
  /\ \A body \in Bodies :
       (Has(body, "title") /\ Trim(body.title) = << >>) =>
         Refused(CreateTask(tasks, nextId, body, now))
  /\ \A id \in 1..MaxTasks : \A body \in Bodies :
       /\ (\/ Has(body, "title") /\ Trim(body.title) = << >>
           \/ Has(body, "status") /\ body.status \notin StatusValues) =>
            /\ Refused(UpdateTaskFull(tasks, id, body, now))
            /\ Refused(UpdateTaskPartial(tasks, id, body, now))
       /\ DOMAIN body \cap {"title", "description", "status"} = {} =>
            Refused(UpdateTaskPartial(tasks, id, body, now))

\* A completed record and an id that is not stored, and for both a blank
\* title, a status that does not exist and an empty PATCH refused.
RefusedForStoredAndMissing ==
  \E id, missing \in 1..MaxTasks :
    /\ id \in DOMAIN tasks /\ tasks[id].status = "completed"
    /\ missing \notin DOMAIN tasks
    /\ \A i \in {id, missing} :
         /\ UpdateTaskFull(tasks, i, Field("title", <<" ">>), now).kind = "ValidationError"
         /\ UpdateTaskPartial(tasks, i, Field("status", "archived"), now).kind
              = "ValidationError"
         /\ UpdateTaskPartial(tasks, i, EmptyObj, now).kind = "ValidationError"
    /\ UpdateTaskFull(tasks, missing, Field("title", <<"b">>), now).kind = "NotFoundError"

\* The store with record id moved into the trash, or out of it.
TrashToggled(id) ==
  [tasks EXCEPT ![id] = [@ EXCEPT !.isDeleted = ~@,
                                  !.deletedAt = IF tasks[id].isDeleted THEN Null
                                                ELSE Date(now)]]

\* The two answers agree, and the stores they leave differ in nothing but
\* isDeleted and deletedAt of record id, which each has kept.
SameButTrash(r, twin, id) ==
  /\ r.kind = twin.kind
  /\ r.error = twin.error
  /\ DOMAIN r.tasks = DOMAIN twin.tasks
  /\ \A other \in DOMAIN r.tasks \ {id} : r.tasks[other] = twin.tasks[other]
  /\ \A f \in KeptFields : r.tasks[id][f] = twin.tasks[id][f]
  /\ SameTrashFields(r.tasks, id)
  /\ twin.tasks[id].isDeleted = ~tasks[id].isDeleted

\* C19: a read by id of a record in the trash succeeds, a PUT and a PATCH of it
\* give what they give for the same record out of the trash (never
\* NotFoundError), and no update changes isDeleted or deletedAt.
TrashDoesNotBlockUpdates ==
  \A id \in DOMAIN tasks :
    /\ GetTask(tasks, id) = [kind |-> "ok", error |-> "", task |-> tasks[id]]
    /\ \A body \in Bodies :
         /\ UpdateTaskFull(tasks, id, body, now).kind # "NotFoundError"
         /\ UpdateTaskPartial(tasks, id, body, now).kind # "NotFoundError"
         /\ SameButTrash(UpdateTaskFull(tasks, id, body, now),
                         UpdateTaskFull(TrashToggled(id), id, body, now), id)
         /\ SameButTrash(UpdateTaskPartial(tasks, id, body, now),
                         UpdateTaskPartial(TrashToggled(id), id, body, now), id)

\* A record in the trash that is read, and that a PATCH completes while it
\* stays in the trash.
TrashedRecordCompleted ==
  \E id \in DOMAIN tasks :
    /\ tasks[id].isDeleted = TRUE
    /\ tasks[id].status = "pending"
    /\ GetTask(tasks, id).kind = "ok"
    /\ LET r == UpdateTaskPartial(tasks, id, Field("status", "completed"), now)
       IN r.kind = "ok" /\ r.tasks[id].status = "completed" /\ r.tasks[id].isDeleted = TRUE

\* C16: with updates that read the record and write it in two steps, in any
\* order with one another, no step changes the title or the description of a
\* record that is completed when the step is taken.
CompletedKeepsTitleUnderRaces ==
  [][\A id \in DOMAIN tasks \cap DOMAIN tasks' :
       tasks[id].status = "completed" =>
         /\ tasks'[id].title = tasks[id].title
         /\ tasks'[id].description = tasks[id].description]_vars

\* C17: with updates that read the record and write it in two steps, in any
\* order with one another, no step takes a record from completed to pending:
\* a completed record stays completed or goes to in-progress.
NoCompletedToPendingUnderRaces ==
  [][\A id \in DOMAIN tasks \cap DOMAIN tasks' :
       tasks[id].status = "completed" =>
         tasks'[id].status \in {"completed", "in-progress"}]_vars

\* C18: a completedAt that is set keeps its value for as long as the record
\* stays completed, whatever the updates and their order: a write of
\* status=completed to a record that has a completedAt leaves it.
CompletedAtStampedOnce ==
  [][\A id \in DOMAIN tasks \cap DOMAIN tasks' :
       (/\ tasks[id].status = "completed"
        /\ tasks[id].completedAt # Null
        /\ tasks'[id].status = "completed") =>
         tasks'[id].completedAt = tasks[id].completedAt]_vars

\* The records outside the trash that have status s.
LiveWith(s) == {id \in Live : tasks[id].status = s}

\* C13: the summary gives, for each of the three statuses, the number of
\* records outside the trash with that status, 0 if there is none, and a
\* total that is the sum of the three and the number of records outside the
\* trash.
SummaryCountsLiveRecords ==
  LET summary == Summary(tasks)
  IN /\ DOMAIN summary = StatusValues \cup {"total"}
     /\ \A s \in StatusValues : summary[s] = Cardinality(LiveWith(s))
     /\ summary["total"] = summary["pending"] + summary["in-progress"] + summary["completed"]
     /\ summary["total"] = Cardinality(Live)

\* A completed record, and a pending one in the trash that the summary leaves
\* out.
SummaryLeavesOutTrash ==
  /\ \E id \in Trashed : tasks[id].status = "pending"
  /\ LiveWith("completed") # {}
  /\ Summary(tasks)["pending"] = 0
  /\ Summary(tasks)["completed"] = 1
  /\ Summary(tasks)["total"] = 1

\* Values of page and of limit as the query writes them, each with its number.
PageArgs == {<< <<"1">>, 1 >>, << <<"2">>, 2 >>, << <<" ", "3">>, 3 >>}

LimitArgs == {<< <<"1">>, 1 >>, << <<"5">>, 5 >>, << <<"1", "0">>, 10 >>}

\* The records outside the trash in the order of the listing.
OrderedLive == SortDesc(tasks, Live, "createdAt")

\* C12: for a positive page and a positive limit the listing returns the
\* elements of the ordered result set at the positions from (page-1)*limit,
\* included, to (page-1)*limit+limit, excluded, and reports the page, the number
\* ceil(total/limit) of pages and the number total of all the records that
\* match, not of those in the window.
WindowOfOrderedResults ==
  \A page \in PageArgs : \A limit \in LimitArgs :
    LET r == ListTasks(tasks, [page |-> page[1], limit |-> limit[1]])
        total == Cardinality(Live)
        skip == (page[2] - 1) * limit[2]
        size == IF total - skip < 0 THEN 0 ELSE Min(limit[2], total - skip)
    IN /\ Len(r.tasks) = size
       /\ \A k \in 1..size : r.tasks[k] = OrderedLive[skip + k]
       /\ r.pagination.current = page[2]
       /\ r.pagination.total = total
       /\ r.pagination.pages * limit[2] >= total
       /\ \/ (r.pagination.pages - 1) * limit[2] < total
          \/ (total = 0 /\ r.pagination.pages = 0)

\* Twelve records outside the trash: page 2 of 10 holds the eleventh and the
\* twelfth, of 2 pages and 12 records.
SecondPageOfTwelve ==
  /\ Cardinality(Live) = 12
  /\ LET r == ListTasks(tasks, [page |-> <<"2">>, limit |-> <<"1", "0">>])
     IN /\ r.tasks = <<OrderedLive[11], OrderedLive[12]>>
        /\ r.pagination = [current |-> 2, pages |-> 2, total |-> 12]

\* The keywords and queries of the searches: padded, in capitals, a letter,
\* the character that stands for any other, the character that opens a group,
\* and a blank.
SearchKeywords ==
  {<<" ", "a", "p", " ">>, <<"A", "P">>, <<"x">>, <<".">>, <<"(">>, <<" ">>}

\* The text input has the text term at position pos, letter for letter
\* whatever the case.
TextAt(term, input, pos) ==
  /\ pos + Len(term) - 1 <= Len(input)
  /\ \A k \in 1..Len(term) : Lower(term[k]) = Lower(input[pos + k - 1])

StartsWithText(input, term) == TextAt(term, input, 1)

ContainsText(input, term) == \E pos \in 1..(Len(input) + 1) : TextAt(term, input, pos)

\* The score of a record for a keyword.
Score(doc, term) ==
  IF StartsWithText(doc.title, term) THEN 3
  ELSE IF StartsWithText(doc.description, term) THEN 2
  ELSE IF ContainsText(doc.title, term) THEN 1
  ELSE 0

\* The listing r holds its records by createdAt descending.
NewestFirst(r) ==
  \A k \in 1..(Len(r.tasks) - 1) :
    tasks[r.tasks[k]].createdAt[1] >= tasks[r.tasks[k + 1]].createdAt[1]

\* The listing r holds its records by score descending, then by createdAt
\* descending.
BestFirst(r, term) ==
  \A k \in 1..(Len(r.tasks) - 1) :
    LET this == tasks[r.tasks[k]]
        next == tasks[r.tasks[k + 1]]
    IN \/ Score(this, term) > Score(next, term)
       \/ /\ Score(this, term) = Score(next, term)
          /\ this.createdAt[1] >= next.createdAt[1]

\* The ranked search for each keyword of a set.
RankedSearchFor(keywords) ==
  /\ \A keyword \in keywords : \A include \in {"false", "true"} :
       Trim(keyword) # << >> =>
         LET term == Trim(keyword)
             r == ListTasks(tasks, [keyword |-> keyword, includeDeleted |-> include])
             visible == IF include = "true" THEN DOMAIN tasks ELSE Live
             expected == {id \in visible : \/ ContainsText(tasks[id].title, term)
                                           \/ ContainsText(tasks[id].description, term)}
         IN /\ r.kind = "ok"
            /\ Range(r.tasks) = expected
            /\ Len(r.tasks) = Cardinality(expected)
            /\ BestFirst(r, term)
  /\ NewestFirst(ListTasks(tasks, EmptyObj))
  /\ NewestFirst(ListTasks(tasks, Field("keyword", <<" ">>)))

\* C11: for a keyword that is not blank the listing returns the visible
\* records whose title or description contains the keyword, whatever the case,
\* and no other, by score descending (3 for a title that starts with the
\* keyword, else 2 for a description that starts with it, else 1 for a title
\* that contains it, else 0) and then by createdAt descending; with no keyword
\* it returns them by createdAt descending.
RankedSearchReturnsTextMatches == RankedSearchFor(SearchKeywords)

\* The records whose title or description starts with the text term.
PrefixMatches(term) ==
  {id \in DOMAIN tasks : \/ StartsWithText(tasks[id].title, term)
                         \/ StartsWithText(tasks[id].description, term)}

SuggestedIds(r) == {r.suggestions[k].id : k \in 1..Len(r.suggestions)}

\* The suggestions for each query of a set.
SuggestionsFor(queries) ==
  /\ Suggest(tasks, EmptyObj) = [kind |-> "ok", error |-> "", suggestions |-> << >>]
  /\ \A q \in queries :
       LET r == Suggest(tasks, Field("q", q))
           term == Trim(q)
       IN IF term = << >>
          THEN r = [kind |-> "ok", error |-> "", suggestions |-> << >>]
          ELSE /\ r.kind = "ok"
               /\ Len(r.suggestions) <= 10
               /\ SuggestedIds(r) \subseteq PrefixMatches(term)
               /\ \A k \in 1..Len(r.suggestions) :
                    r.suggestions[k].matchType =
                      IF StartsWithText(r.suggestions[k].title, term)
                      THEN "title" ELSE "description"
               /\ Cardinality(PrefixMatches(term)) < 10 =>
                    /\ SuggestedIds(r) = PrefixMatches(term)
                    /\ Len(r.suggestions) = Cardinality(PrefixMatches(term))

\* C14: for a query that is blank after trimming the suggestions are an empty
\* list and no error; for any other they are at most 10 records, each with a
\* title or a description that starts with the trimmed query, whatever the
\* case, each with matchType title if its title starts with it and description
\* otherwise, and all such records if there are fewer than 10.
SuggestionsArePrefixMatches == SuggestionsFor(SearchKeywords)

\* A soft delete and a restore of any record leave the suggestions for q as
\* they are.
SuggestIgnoresTrash(q) ==
  \A id \in DOMAIN tasks :
    /\ Suggest(SoftDeleteTask(tasks, id, now).tasks, Field("q", q)) = Suggest(tasks, Field("q", q))
    /\ Suggest(RestoreTask(tasks, id, now).tasks, Field("q", q)) = Suggest(tasks, Field("q", q))

\* C20: in a store with fewer than 10 records whose title or description
\* starts with the query, the suggestions hold each of them, in the trash or
\* not, and a soft delete or a restore does not change the suggestions.
SuggestionsHoldTrashedMatches ==
  \A q \in SearchKeywords :
    (Trim(q) # << >> /\ Cardinality(PrefixMatches(Trim(q))) < 10) =>
      /\ PrefixMatches(Trim(q)) \subseteq SuggestedIds(Suggest(tasks, Field("q", q)))
      /\ SuggestIgnoresTrash(q)

=============================================================================
